---- MODULE Spec2Model ----
(***************************************************************************)
(* Call analytics dashboard (src/app.py): the data pipeline of the         *)
(* Streamlit script.  An uploaded call log is normalised and joined with   *)
(* the disposition table (process_data), reduced to one row per phone      *)
(* number, filtered by the sidebar widgets, aggregated (generate_metrics)  *)
(* and drilled into (get_filtered_data).                                   *)
(*                                                                         *)
(* Encoding.  A DataFrame is a sequence of records, one field per column   *)
(* (the column names without their spaces).  NULL stands for NaN / NA.     *)
(* A duration is an integer number of milliseconds, a percentage an        *)
(* integer number of hundredths of a percent, so round(x, 2) is exact.     *)
(* A label on which the code does substring tests is turned into its       *)
(* sequence of characters by Chars and searched character by character.    *)
(* The slot label "30s-1min" and "1-2min" are written with an ASCII hyphen.*)
(***************************************************************************)
EXTENDS Integers, Sequences, FiniteSets, TLC

VARIABLES
    pc,                  \* position of the script: upload, filters, metrics, render, idle, stopped, error
    df_calling,          \* the uploaded Calling.csv
    df2,                 \* Disposition_.csv
    df_merged,           \* process_data's first result
    df_unique_original,  \* process_data's second result (cached)
    start_date,          \* sidebar "From"
    end_date,            \* sidebar "To"
    chosen_list,         \* sidebar "Filter by List"
    df_unique,           \* the working table handed to generate_metrics
    summary,             \* session_state.summary
    agent_report,        \* session_state.agent_summary
    list_report,         \* session_state.list_disposition_summary
    selected_metrics,    \* session_state.selected_metrics
    drill                \* the drill-down section: metric -> filtered_df

vars == <<pc, df_calling, df2, df_merged, df_unique_original, start_date, end_date,
          chosen_list, df_unique, summary, agent_report, list_report,
          selected_metrics, drill>>

----------------------------------------------------------------------------
(* Values *)

NULL == "<NA>"

\* One second, in the model's unit of time (milliseconds).
Second == 1000

\* Slot thresholds of slot_category, in seconds.
Below30Limit == 30
Below60Limit == 60
Below120Limit == 120

\* pd.NaT as a Call Date, and a parsed date.
NaT == [null |-> TRUE, day |-> 0]
Date(d) == [null |-> FALSE, day |-> d]

\* NaN as an Hour, and a parsed hour.
NoHour == [null |-> TRUE, hour |-> 0]
HourOf(h) == [null |-> FALSE, hour |-> h]

----------------------------------------------------------------------------
(* Sequence helpers (pandas row selection keeps the order of the rows) *)

\* df[mask]: the rows whose index is in keep, in order.
SelectRows(df, keep) ==
    LET F[i \in 0..Len(df)] ==
            IF i = 0 THEN <<>>
            ELSE IF i \in keep THEN Append(F[i - 1], df[i]) ELSE F[i - 1]
    IN F[Len(df)]

\* mask.sum(), len(df[mask]): the number of rows a boolean mask selects.
CountRows(mask) == Cardinality({i \in DOMAIN mask : mask[i]})

\* Python's round(n / d, 0) on exact values: round half to even (n >= 0, d > 0).
RoundDiv(n, d) ==
    LET q == n \div d
        r == n % d
    IN IF 2 * r < d THEN q
       ELSE IF 2 * r > d THEN q + 1
       ELSE IF q % 2 = 0 THEN q ELSE q + 1

RECURSIVE SumOver(_, _)
\* sum of f[x] for x in S
SumOver(f, S) ==
    IF S = {} THEN 0
    ELSE LET x == CHOOSE y \in S : TRUE IN f[x] + SumOver(f, S \ {x})

----------------------------------------------------------------------------
(* process_data: normalisation *)

\* .replace("", pd.NA).fillna(df["Disposition"]).fillna(df["Dialer Status"])
EffectiveDisposition(r) ==
    LET replaced == IF r.SubSubDisposition = "" THEN NULL ELSE r.SubSubDisposition
        filled1  == IF replaced = NULL THEN r.Disposition ELSE replaced
        filled2  == IF filled1 = NULL THEN r.DialerStatus ELSE filled1
    IN filled2

\* pd.to_timedelta(..., errors='coerce').dt.total_seconds().fillna(0).astype(float)
\* on one value: a duration string "[-]MM:SS.mmm", a missing value, or other text.
TalkSeconds(raw) ==
    IF raw.kind = "duration"
    THEN (IF raw.neg THEN -1 ELSE 1) * (raw.min * 60 * Second + raw.sec * Second + raw.ms)
    ELSE 0

\* pd.to_datetime(..., errors='coerce') followed by .dt.date
CallDate(raw) == IF raw.kind = "timestamp" THEN Date(raw.day) ELSE NaT

\* pd.to_datetime(..., errors='coerce') followed by .dt.hour
CallHour(raw) == IF raw.kind = "timestamp" THEN HourOf(raw.hour) ELSE NoHour

slot_category(sec) ==
    IF sec = 0 THEN "No Interaction"
    ELSE IF sec < Below30Limit * Second THEN "Below 30s"
    ELSE IF sec < Below60Limit * Second THEN "30s-1min"
    ELSE IF sec < Below120Limit * Second THEN "1-2min"
    ELSE "Above 2 Min"

\* Lines 64-83 on one row.
NormalizeRow(r) ==
    [PhoneNumber       |-> r.PhoneNumber,
     AgentName         |-> r.AgentName,
     ListName          |-> r.ListName,
     Connected         |-> r.Connected,
     Disposition       |-> r.Disposition,
     DialerStatus      |-> r.DialerStatus,
     SubSubDisposition |-> EffectiveDisposition(r),
     TalkSec           |-> TalkSeconds(r.TalkSec),
     CallDate          |-> CallDate(r.CallStartTime),
     Hour              |-> CallHour(r.CallStartTime),
     Slot              |-> slot_category(TalkSeconds(r.TalkSec))]

Normalize(df) == [i \in DOMAIN df |-> NormalizeRow(df[i])]

----------------------------------------------------------------------------
(* process_data: join and deduplication *)

\* The rows a left row yields in pd.merge(..., how="left"): one per matching
\* row of the right table, or one with nulls when nothing matches.
MergeRow(r, right) ==
    LET hits == SelectRows(right,
                    {k \in DOMAIN right : right[k].CallDisposedStatus = r.SubSubDisposition})
    IN IF hits = <<>>
       THEN <<r @@ [CallDisposedStatus |-> NULL, PrimaryDisposition |-> NULL]>>
       ELSE [k \in DOMAIN hits |->
                r @@ [CallDisposedStatus |-> hits[k].CallDisposedStatus,
                      PrimaryDisposition |-> hits[k].PrimaryDisposition]]

\* pd.merge(df, df2, left_on="Sub Sub Disposition", right_on="Call Disposed Status", how="left")
Merge(df, right) ==
    LET F[i \in 0..Len(df)] ==
            IF i = 0 THEN <<>> ELSE F[i - 1] \o MergeRow(df[i], right)
    IN F[Len(df)]

RECURSIVE DescendingOrders(_, _)
\* The orders of the elements of idx in which key never increases.
DescendingOrders(key, idx) ==
    IF idx = {} THEN {<<>>}
    ELSE LET top == {i \in idx : \A j \in idx : key[j] <= key[i]}
         IN UNION {{<<i>> \o rest : rest \in DescendingOrders(key, idx \ {i})} : i \in top}

\* df.sort_values("Talk Sec", ascending=False): the default sort is not stable,
\* so rows of equal Talk Sec may come out in any order.
sort_values(df) ==
    LET key == [i \in DOMAIN df |-> df[i].TalkSec]
    IN {[k \in DOMAIN df |-> df[order[k]]] : order \in DescendingOrders(key, DOMAIN df)}

\* drop_duplicates with keep="last": the row it keeps is the shortest call.
drop_duplicates_keep_last(df) ==
    SelectRows(df, {i \in DOMAIN df :
                      \A j \in (i + 1)..Len(df) : df[j].PhoneNumber # df[i].PhoneNumber})

\* df.drop_duplicates(subset="Phone Number", keep="first"); equal keys include two nulls.
drop_duplicates(df) ==
    SelectRows(df, {i \in DOMAIN df :
                      \A j \in 1..(i - 1) : df[j].PhoneNumber # df[i].PhoneNumber})

\* process_data's results: every (df_merged, df_unique) the sort may produce.
process_data(calling, right) ==
    {[df_merged |-> sorted, df_unique |-> drop_duplicates(sorted)] :
        sorted \in sort_values(Merge(Normalize(calling), right))}

----------------------------------------------------------------------------
(* generate_metrics: the funnel summary *)

Slots30s == {"30s-1min", "1-2min", "Above 2 Min"}
Slots1min == {"1-2min", "Above 2 Min"}
Slots2min == {"Above 2 Min"}

positive_dispositions == {"Follow Up", "Virtual Meet Proposed", "Virtual Meet Confirmed"}

total_dialled(df) == Len(df)

\* df_unique[df_unique["Connected/Not Connected"] == "Connected"]
connected(df) == SelectRows(df, {i \in DOMAIN df : df[i].Connected = "Connected"})

unique_connected(df) == Len(connected(df))

\* The >30s count taken over every row, as the drill-down and the agent summary take it.
gt_30s_of_all_rows(df) == (LET t == df
    IN CountRows([i \in DOMAIN t |-> t[i].Slot \in Slots30s]))

gt_30s(df) == (LET t == connected(df) IN CountRows([i \in DOMAIN t |-> t[i].Slot \in Slots30s]))

gt_1min(df) == (LET t == connected(df)
    IN CountRows([i \in DOMAIN t |-> t[i].Slot \in Slots1min]))

gt_2min(df) == (LET t == connected(df)
    IN CountRows([i \in DOMAIN t |-> t[i].Slot \in Slots2min]))

\* round(unique_connected / total_dialled * 100, 2) if total_dialled else 0
connect_pct(df) ==
    IF total_dialled(df) # 0
    THEN RoundDiv(unique_connected(df) * 10000, total_dialled(df))
    ELSE 0

\* def pct(val): round(val / unique_connected * 100, 2) if unique_connected else 0
pct(val, df) ==
    IF unique_connected(df) # 0
    THEN RoundDiv(val * 10000, unique_connected(df))
    ELSE 0

\* df_unique["Primary Disposition"].value_counts().get(category, 0)
disp_counts(df, category) == (LET t == df
    IN CountRows([i \in DOMAIN t |-> t[i].PrimaryDisposition = category]))

positive_total(df) ==
    disp_counts(df, "Follow Up") + disp_counts(df, "Virtual Meet Proposed")
        + disp_counts(df, "Virtual Meet Confirmed")

\* f"{n:,}" and f"{p}%": the number with the kind of text it is shown as.
FormatCount(n) == [kind |-> "count", value |-> n]
FormatPct(p) == [kind |-> "pct", value |-> p]

CountLabels ==
    {"Unique Data Dialled", "Unique Connected", "Unique Connected >30s",
     "Unique Connected >1min", "Unique Connected >2min"}

CategoryLabels ==
    {"SDW (%)", "Lost (%)", "Follow Up (%)", "Virtual Meet Proposed (%)",
     "Virtual Meet Confirmed (%)"}

SummaryLabels == CountLabels \cup {"Connect %"} \cup CategoryLabels \cup {"Total Positive (%)"}

summary_data(df) ==
    [label \in SummaryLabels |->
        CASE label = "Unique Data Dialled"        -> FormatCount(total_dialled(df))
          [] label = "Unique Connected"           -> FormatCount(unique_connected(df))
          [] label = "Unique Connected >30s"      -> FormatCount(gt_30s(df))
          [] label = "Unique Connected >1min"     -> FormatCount(gt_1min(df))
          [] label = "Unique Connected >2min"     -> FormatCount(gt_2min(df))
          [] label = "Connect %"                  -> FormatPct(connect_pct(df))
          [] label = "SDW (%)"                    -> FormatPct(pct(disp_counts(df, "SDW"), df))
          [] label = "Lost (%)"                   -> FormatPct(pct(disp_counts(df, "Lost"), df))
          [] label = "Follow Up (%)"              -> FormatPct(pct(disp_counts(df, "Follow Up"), df))
          [] label = "Virtual Meet Proposed (%)"  ->
                 FormatPct(pct(disp_counts(df, "Virtual Meet Proposed"), df))
          [] label = "Virtual Meet Confirmed (%)" ->
                 FormatPct(pct(disp_counts(df, "Virtual Meet Confirmed"), df))
          [] label = "Total Positive (%)"         -> FormatPct(pct(positive_total(df), df))]

----------------------------------------------------------------------------
(* generate_metrics: the agent summary *)

\* The groups of groupby("Agent Name"): null keys are dropped.
AgentNames(df) == {df[i].AgentName : i \in DOMAIN df} \ {NULL}

AgentRows(df, agent) == SelectRows(df, {i \in DOMAIN df : df[i].AgentName = agent})

\* ("Phone Number", "count"): the non-null phone numbers of the group.
Unique_Contacts(df, agent) ==
    (LET t == AgentRows(df, agent) IN CountRows([i \in DOMAIN t |-> t[i].PhoneNumber # NULL]))

\* ("Slot", lambda x: x.isin([...]).sum())
Unique_Connected_GT30s(df, agent) ==
    (LET t == AgentRows(df, agent) IN CountRows([i \in DOMAIN t |-> t[i].Slot \in Slots30s]))

Unique_Connected_GT1min(df, agent) ==
    (LET t == AgentRows(df, agent) IN CountRows([i \in DOMAIN t |-> t[i].Slot \in Slots1min]))

Unique_Connected_GT2min(df, agent) ==
    (LET t == AgentRows(df, agent) IN CountRows([i \in DOMAIN t |-> t[i].Slot \in Slots2min]))

\* positive_count merged on the left and .fillna(0).astype(int): an agent
\* without a positive row has 0.
Positive_Outcomes(df, agent) ==
    (LET t == AgentRows(df, agent)
        IN CountRows([i \in DOMAIN t |-> t[i].PrimaryDisposition \in positive_dispositions]))

\* A float of the Effort_to_Positive column: a number (in hundredths), inf, NaN,
\* or the text "-".
Num(h) == [kind |-> "num", hundredths |-> h]
Inf == [kind |-> "inf", hundredths |-> 0]
NaN == [kind |-> "nan", hundredths |-> 0]
Dash == [kind |-> "-", hundredths |-> 0]

\* (Unique_Contacts / Positive_Outcomes).round(2) in float arithmetic
Divide(contacts, positives) ==
    IF positives # 0 THEN Num(RoundDiv(contacts * 100, positives))
    ELSE IF contacts = 0 THEN NaN ELSE Inf

\* The division's result left as it is.
ReplaceInf_skipped(v) == v

\* .replace([float('inf')], "-")
ReplaceInf(v) == IF v = Inf THEN Dash ELSE v

\* .fillna(0) of the merge with disp_pivot
FillNa(v) == IF v = NaN THEN Num(0) ELSE v

Effort_to_Positive(df, agent) ==
    FillNa(ReplaceInf(Divide(Unique_Contacts(df, agent), Positive_Outcomes(df, agent))))

\* The columns of disp_pivot: the categories of rows with an agent and a category.
PivotCategories(df) ==
    {df[i].PrimaryDisposition : i \in {j \in DOMAIN df : df[j].AgentName # NULL}} \ {NULL}

\* disp_pivot merged on the left and .fillna(0)
disp_pivot(df, agent) ==
    [category \in PivotCategories(df) |->
        (LET t == AgentRows(df, agent)
            IN CountRows([i \in DOMAIN t |-> t[i].PrimaryDisposition = category]))]

\* One row per agent, keyed by Agent Name.
agent_summary(df) ==
    [agent \in AgentNames(df) |->
        [Unique_Contacts         |-> Unique_Contacts(df, agent),
         Unique_Connected_GT30s  |-> Unique_Connected_GT30s(df, agent),
         Unique_Connected_GT1min |-> Unique_Connected_GT1min(df, agent),
         Unique_Connected_GT2min |-> Unique_Connected_GT2min(df, agent),
         Positive_Outcomes       |-> Positive_Outcomes(df, agent),
         Effort_to_Positive      |-> Effort_to_Positive(df, agent),
         Dispositions            |-> disp_pivot(df, agent)]]

----------------------------------------------------------------------------
(* generate_metrics: the list summary *)

\* "List Name" in df_unique.columns and df_unique["List Name"].notna().any()
\* (a table without the column is a table whose List Name is null in every row)
HasLists(df) == \E i \in DOMAIN df : df[i].ListName # NULL

\* The rows groupby(["List Name", "Primary Disposition"]) groups: a null in
\* either key drops the row.
GroupedRows(df) ==
    SelectRows(df, {i \in DOMAIN df :
                      df[i].ListName # NULL /\ df[i].PrimaryDisposition # NULL})

ListIndex(df) == {GroupedRows(df)[i].ListName : i \in DOMAIN GroupedRows(df)}

ListColumns(df) == {GroupedRows(df)[i].PrimaryDisposition : i \in DOMAIN GroupedRows(df)}

\* .size().unstack(fill_value=0): the count of one list and one category.
list_disp(df, list, category) ==
    (LET t == GroupedRows(df)
        IN CountRows([i \in DOMAIN t |-> t[i].ListName = list
                /\ t[i].PrimaryDisposition = category]))

\* list_disp.sum(axis=1)
Total_Unique(df, list) ==
    LET row == [category \in ListColumns(df) |-> list_disp(df, list, category)]
    IN SumOver(row, ListColumns(df))

\* list_disp.get(category, 0) on the row of a list
ListGet(df, list, category) ==
    IF category \in ListColumns(df) THEN list_disp(df, list, category) ELSE 0

Positive(df, list) ==
    ListGet(df, list, "Follow Up") + ListGet(df, list, "Virtual Meet Proposed")
        + ListGet(df, list, "Virtual Meet Confirmed")

\* (Positive / Total_Unique * 100).round(2)
Positive_pct(df, list) == RoundDiv(Positive(df, list) * 10000, Total_Unique(df, list))

ListRow(df, list) ==
    [ListName     |-> list,
     Dispositions |-> [category \in ListColumns(df) |-> list_disp(df, list, category)],
     Total_Unique |-> Total_Unique(df, list),
     Positive     |-> Positive(df, list),
     Positive_pct |-> Positive_pct(df, list)]

\* The list summaries generate_metrics may return: sorted by Total_Unique,
\* largest first, rows of equal Total_Unique in any order; pd.DataFrame() when
\* there is no list.
list_disp_summary(df) ==
    IF HasLists(df)
    THEN LET key == [list \in ListIndex(df) |-> Total_Unique(df, list)]
         IN {[k \in DOMAIN order |-> ListRow(df, order[k])] :
                order \in DescendingOrders(key, ListIndex(df))}
    ELSE {<<>>}

----------------------------------------------------------------------------
(* get_filtered_data *)

\* The characters of the strings the drill-down works on.
Chars(s) ==
    CASE s = "Unique Data Dialled" ->
           <<"U","n","i","q","u","e"," ","D","a","t","a"," ","D","i","a","l","l","e","d">>
      [] s = "Unique Connected" ->
           <<"U","n","i","q","u","e"," ","C","o","n","n","e","c","t","e","d">>
      [] s = "Unique Connected >30s" ->
           <<"U","n","i","q","u","e"," ","C","o","n","n","e","c","t","e","d"," ",">","3","0","s">>
      [] s = "Unique Connected >1min" ->
           <<"U","n","i","q","u","e"," ","C","o","n","n","e","c","t","e","d"," ",">","1","m","i","n">>
      [] s = "Unique Connected >2min" ->
           <<"U","n","i","q","u","e"," ","C","o","n","n","e","c","t","e","d"," ",">","2","m","i","n">>
      [] s = "Connect %" ->
           <<"C","o","n","n","e","c","t"," ","%">>
      [] s = "SDW (%)" ->
           <<"S","D","W"," ","(","%",")">>
      [] s = "Lost (%)" ->
           <<"L","o","s","t"," ","(","%",")">>
      [] s = "Follow Up (%)" ->
           <<"F","o","l","l","o","w"," ","U","p"," ","(","%",")">>
      [] s = "Virtual Meet Proposed (%)" ->
           <<"V","i","r","t","u","a","l"," ","M","e","e","t"," ","P","r","o","p","o","s","e","d"," ","(","%",")">>
      [] s = "Virtual Meet Confirmed (%)" ->
           <<"V","i","r","t","u","a","l"," ","M","e","e","t"," ","C","o","n","f","i","r","m","e","d"," ","(","%",")">>
      [] s = "Total Positive (%)" ->
           <<"T","o","t","a","l"," ","P","o","s","i","t","i","v","e"," ","(","%",")">>
      [] s = ">" ->
           <<">">>
      [] s = ">30s" ->
           <<">","3","0","s">>
      [] s = ">1min" ->
           <<">","1","m","i","n">>
      [] s = ">2min" ->
           <<">","2","m","i","n">>
      [] s = "(%)" ->
           <<"(","%",")">>
      [] s = " (" ->
           <<" ","(">>
      [] s = "SDW" ->
           <<"S","D","W">>
      [] s = "Lost" ->
           <<"L","o","s","t">>
      [] s = "Follow Up" ->
           <<"F","o","l","l","o","w"," ","U","p">>
      [] s = "Virtual Meet Proposed" ->
           <<"V","i","r","t","u","a","l"," ","M","e","e","t"," ","P","r","o","p","o","s","e","d">>
      [] s = "Virtual Meet Confirmed" ->
           <<"V","i","r","t","u","a","l"," ","M","e","e","t"," ","C","o","n","f","i","r","m","e","d">>
      [] s = "Call Back" ->
           <<"C","a","l","l"," ","B","a","c","k">>

\* pattern in text
Contains(text, pattern) ==
    \E i \in 0..(Len(text) - Len(pattern)) : SubSeq(text, i + 1, i + Len(pattern)) = pattern

\* text.split(separator)[0]
SplitFirst(text, separator) ==
    IF Contains(text, separator)
    THEN LET first == CHOOSE i \in 0..(Len(text) - Len(separator)) :
                        /\ SubSeq(text, i + 1, i + Len(separator)) = separator
                        /\ \A j \in 0..(i - 1) :
                               SubSeq(text, j + 1, j + Len(separator)) # separator
         IN SubSeq(text, 1, first)
    ELSE text

RECURSIVE Strip(_)
\* text.strip()
Strip(text) ==
    IF text = <<>> THEN text
    ELSE IF Head(text) = " " THEN Strip(Tail(text))
    ELSE IF text[Len(text)] = " " THEN Strip(SubSeq(text, 1, Len(text) - 1))
    ELSE text

\* df[df["Primary Disposition"] == disp]: a null never equals a string.
RowsOfDisposition(df, disp) ==
    SelectRows(df, {i \in DOMAIN df :
                      /\ df[i].PrimaryDisposition # NULL
                      /\ Chars(df[i].PrimaryDisposition) = disp})

get_filtered_data(metric_name, df) ==
    LET name == Chars(metric_name)
    IN IF Contains(name, Chars("Unique Data Dialled")) THEN df
       ELSE IF Contains(name, Chars("Unique Connected")) /\ ~Contains(name, Chars(">"))
            THEN SelectRows(df, {i \in DOMAIN df : df[i].Connected = "Connected"})
       ELSE IF Contains(name, Chars(">30s"))
            THEN SelectRows(df, {i \in DOMAIN df : df[i].Slot \in Slots30s})
       ELSE IF Contains(name, Chars(">1min"))
            THEN SelectRows(df, {i \in DOMAIN df : df[i].Slot \in Slots1min})
       ELSE IF Contains(name, Chars(">2min"))
            THEN SelectRows(df, {i \in DOMAIN df : df[i].Slot \in Slots2min})
       ELSE IF Contains(name, Chars("(%)"))
            THEN RowsOfDisposition(df, Strip(SplitFirst(name, Chars(" ("))))
       ELSE <<>>

\* The labels of the KPI cards, each with a drill button.
metrics_order ==
    {"Unique Data Dialled", "Unique Connected", "Unique Connected >1min", "Connect %",
     "Total Positive (%)", "Follow Up (%)", "Virtual Meet Proposed (%)",
     "Virtual Meet Confirmed (%)"}

----------------------------------------------------------------------------
(* The sidebar filters *)

\* The days of the rows whose Call Date is not null.
ValidDays(df) == {df[i].CallDate.day : i \in {j \in DOMAIN df : ~df[j].CallDate.null}}

\* pd.to_datetime(df_unique["Call Date"]).min().date(): nulls are skipped, and
\* the minimum of nothing is NaT.
min_date(df) ==
    IF ValidDays(df) = {} THEN NaT
    ELSE Date(CHOOSE d \in ValidDays(df) : \A e \in ValidDays(df) : d <= e)

max_date(df) ==
    IF ValidDays(df) = {} THEN NaT
    ELSE Date(CHOOSE d \in ValidDays(df) : \A e \in ValidDays(df) : e <= d)

\* What st.date_input(..., min_value=min_date, max_value=max_date) can return.
DateChoices(df) == {Date(d) : d \in min_date(df).day .. max_date(df).day}

\* The date mask of lines 191-194: a comparison with NaT is false.
DateFilter(df, from, to) ==
    SelectRows(df, {i \in DOMAIN df :
                      /\ ~df[i].CallDate.null /\ ~from.null /\ ~to.null
                      /\ df[i].CallDate.day >= from.day
                      /\ df[i].CallDate.day <= to.day})

\* ["All Lists"] + sorted(df_unique["List Name"].dropna().unique().tolist())
ListChoices(df) ==
    IF HasLists(df)
    THEN {"All Lists"} \cup ({df[i].ListName : i \in DOMAIN df} \ {NULL})
    ELSE {"All Lists"}

\* Lines 196-200.
ListFilter(df, chosen) ==
    IF HasLists(df) /\ chosen # "All Lists"
    THEN SelectRows(df, {i \in DOMAIN df : df[i].ListName = chosen})
    ELSE df

----------------------------------------------------------------------------
(* Uploaded tables *)

Row(phone, agent, list, time, talk, conn, ssd, disp, ds) ==
    [PhoneNumber       |-> phone,
     AgentName         |-> agent,
     ListName          |-> list,
     CallStartTime     |-> time,
     TalkSec           |-> talk,
     Connected         |-> conn,
     SubSubDisposition |-> ssd,
     Disposition       |-> disp,
     DialerStatus      |-> ds]

\* Values of the Call Start Time column: a timestamp, text that is none, nothing.
Timestamp(d, h) == [kind |-> "timestamp", day |-> d, hour |-> h]
BadTimestamp == [kind |-> "text", day |-> 0, hour |-> 0]

\* Values of the Talk Sec column: "[-]MM:SS.mmm", text that is no duration, nothing.
Duration(neg, m, sec, ms) == [kind |-> "duration", neg |-> neg, min |-> m, sec |-> sec, ms |-> ms]
BadDuration == [kind |-> "text", neg |-> FALSE, min |-> 0, sec |-> 0, ms |-> 0]
MissingDuration == [kind |-> "null", neg |-> FALSE, min |-> 0, sec |-> 0, ms |-> 0]
Seconds(n) == Duration(FALSE, n \div 60, n % 60, 0)

Entry(status, category) == [CallDisposedStatus |-> status, PrimaryDisposition |-> category]

\* A Disposition_.csv: one row per status; the status "Busy" is not in it.
DispositionTable ==
    <<Entry("Interested", "Follow Up"),
      Entry("Meeting Proposed", "Virtual Meet Proposed"),
      Entry("Meeting Fixed", "Virtual Meet Confirmed"),
      Entry("Not Interested", "Lost"),
      Entry("Wrong Number", "SDW"),
      Entry("Call Later", "Call Back")>>

\* A Disposition_.csv that lists one status twice.
DispositionTableDup == Append(DispositionTable, Entry("Interested", "Lost"))

\* The tables of at most n rows over a set of rows.
Tables(rows, n) == UNION {[1..k -> rows] : k \in 0..n}

\* The phone numbers of tables in which no number is dialled twice.
Phones == <<"111", "222", "333", "444", "555">>

\* The tables of at most n rows over a set of rows, row i given the i-th phone
\* number unless it has none.
TablesOfDistinctPhones(rows, n) ==
    {[i \in DOMAIN t |->
        [t[i] EXCEPT !.PhoneNumber = IF @ = NULL THEN NULL ELSE Phones[i]]] :
            t \in Tables(rows, n)}

None == <<>>

InitWith(tables, dispositions) ==
    /\ pc = "upload"
    /\ df_calling \in tables
    /\ df2 \in dispositions
    /\ df_merged = None
    /\ df_unique_original = None
    /\ start_date = NaT
    /\ end_date = NaT
    /\ chosen_list = "All Lists"
    /\ df_unique = None
    /\ summary = None
    /\ agent_report = None
    /\ list_report = None
    /\ selected_metrics = {}
    /\ drill = None

----------------------------------------------------------------------------
(* The script *)

\* Lines 171-175: load_and_process, whose result st.cache_data keeps.
LoadAndProcess ==
    /\ pc = "upload"
    /\ \E result \in process_data(df_calling, df2) :
          /\ df_merged' = result.df_merged
          /\ df_unique_original' = result.df_unique
    /\ pc' = "filters"
    /\ UNCHANGED <<df_calling, df2, start_date, end_date, chosen_list, df_unique,
                   summary, agent_report, list_report, selected_metrics, drill>>

\* Lines 178-200 with the widgets at any value they can hold; From after To
\* stops the script.
ApplyFilters ==
    /\ pc = "filters"
    /\ ValidDays(df_unique_original) # {}
    /\ \E from \in DateChoices(df_unique_original), to \in DateChoices(df_unique_original) :
          /\ start_date' = from
          /\ end_date' = to
          /\ IF from.day > to.day
             THEN /\ pc' = "stopped"
                  /\ UNCHANGED <<chosen_list, df_unique>>
             ELSE \E chosen \in ListChoices(DateFilter(df_unique_original, from, to)) :
                     /\ chosen_list' = chosen
                     /\ df_unique' = ListFilter(DateFilter(df_unique_original, from, to), chosen)
                     /\ pc' = "metrics"
    /\ UNCHANGED <<df_calling, df2, df_merged, df_unique_original,
                   summary, agent_report, list_report, selected_metrics, drill>>

\* Lines 180-185 when no row has a Call Date: min_date and max_date are NaT,
\* which st.date_input may refuse.
DateInputRaises ==
    /\ pc = "filters"
    /\ ValidDays(df_unique_original) = {}
    /\ pc' = "error"
    /\ UNCHANGED <<df_calling, df2, df_merged, df_unique_original, start_date, end_date,
                   chosen_list, df_unique, summary, agent_report, list_report,
                   selected_metrics, drill>>

\* ... or may hand back: every comparison with NaT is false and no row is kept.
DateInputNaT ==
    /\ pc = "filters"
    /\ ValidDays(df_unique_original) = {}
    /\ start_date' = NaT
    /\ end_date' = NaT
    /\ chosen_list' = "All Lists"
    /\ df_unique' = ListFilter(DateFilter(df_unique_original, NaT, NaT), "All Lists")
    /\ pc' = "metrics"
    /\ UNCHANGED <<df_calling, df2, df_merged, df_unique_original,
                   summary, agent_report, list_report, selected_metrics, drill>>

\* Lines 203-209.
GenerateMetrics ==
    /\ pc = "metrics"
    /\ summary' = summary_data(df_unique)
    /\ agent_report' = agent_summary(df_unique)
    /\ list_report' \in list_disp_summary(df_unique)
    /\ pc' = "render"
    /\ UNCHANGED <<df_calling, df2, df_merged, df_unique_original, start_date, end_date,
                   chosen_list, df_unique, selected_metrics, drill>>

\* Lines 337-359: one expander per selected metric.
RenderDrillDown ==
    /\ pc = "render"
    /\ drill' = [metric \in selected_metrics |-> get_filtered_data(metric, df_unique)]
    /\ pc' = "idle"
    /\ UNCHANGED <<df_calling, df2, df_merged, df_unique_original, start_date, end_date,
                   chosen_list, df_unique, summary, agent_report, list_report,
                   selected_metrics>>

\* Lines 249-251: a drill button.  st.rerun() clears the page and runs the
\* script again with the cached tables and the same widgets, so the run
\* resumes at generate_metrics with the same working table.
ClickDrill ==
    /\ pc = "idle"
    /\ \E label \in metrics_order : selected_metrics' = {label}
    /\ drill' = None
    /\ pc' = "metrics"
    /\ UNCHANGED <<df_calling, df2, df_merged, df_unique_original, start_date, end_date,
                   chosen_list, df_unique, summary, agent_report, list_report>>

\* Lines 362-364.
ClearSelection ==
    /\ pc = "idle"
    /\ selected_metrics # {}
    /\ selected_metrics' = {}
    /\ drill' = None
    /\ pc' = "metrics"
    /\ UNCHANGED <<df_calling, df2, df_merged, df_unique_original, start_date, end_date,
                   chosen_list, df_unique, summary, agent_report, list_report>>

\* The user edits a sidebar widget: the page is cleared and the script runs
\* again from the cached tables; session_state keeps its values meanwhile.
ChangeFilters ==
    /\ pc \in {"idle", "stopped"}
    /\ drill' = None
    /\ pc' = "filters"
    /\ UNCHANGED <<df_calling, df2, df_merged, df_unique_original, start_date, end_date,
                   chosen_list, df_unique, summary, agent_report, list_report,
                   selected_metrics>>

\* One run of the pipeline, from the upload to the three summaries.  The
\* drill-down and the clicks below change neither the tables nor the
\* summaries: a rerun computes them again from the same cached tables.
Pipeline ==
    \/ LoadAndProcess
    \/ ApplyFilters
    \/ DateInputRaises
    \/ DateInputNaT
    \/ GenerateMetrics

\* The dashboard: the pipeline, the drill-down and the user's clicks.
Next ==
    \/ Pipeline
    \/ RenderDrillDown
    \/ ClickDrill
    \/ ClearSelection
    \/ ChangeFilters

----------------------------------------------------------------------------
(* Specifications: the dashboard over uploads that vary different columns *)

MaxCalls == 2
MaxDedupCalls == 4
MaxDispositionCalls == 1
MaxSlotCalls == 1
MaxEffortCalls == 2
MaxFunnelCalls == 3
MaxFilterCalls == 2

\* Uploads that vary the agent, the connection status, the talk time and the
\* disposition, one call per phone number.
MetricsRows ==
    {Row("111", agent, NULL, Timestamp(1, 9), talk, conn, ssd, NULL, NULL) :
        agent \in {"Asha", "Ben"},
        talk \in {MissingDuration, Seconds(45), Seconds(90), Seconds(200)},
        conn \in {"Connected", "Not Connected"},
        ssd \in {"Interested", "Not Interested", "Busy"}}

Init == InitWith(TablesOfDistinctPhones(MetricsRows, MaxCalls), {DispositionTable})

Spec == Init /\ [][Next]_vars

\* Uploads that dial a phone number several times, or no number, with
\* different talk times.
DedupRows ==
    {Row(phone, "Asha", NULL, Timestamp(1, 9), talk, "Connected", "Interested", NULL, NULL) :
        phone \in {"111", "222", NULL},
        talk \in {MissingDuration, Seconds(45), Seconds(200)}}

InitDedup == InitWith(Tables(DedupRows, MaxDedupCalls), {DispositionTable})

SpecDedup == InitDedup /\ [][Pipeline]_vars

\* Uploads that vary the three disposition columns, joined with a table
\* that lists a status once or twice.
DispositionValues == {NULL, "", "Busy", "Interested"}

DispositionRows ==
    {Row("111", "Asha", NULL, Timestamp(1, 9), Seconds(45), "Connected", ssd, disp, ds) :
        ssd \in DispositionValues, disp \in DispositionValues, ds \in DispositionValues}

InitDisposition ==
    InitWith(TablesOfDistinctPhones(DispositionRows, MaxDispositionCalls),
             {DispositionTable, DispositionTableDup})

SpecDisposition == InitDisposition /\ [][Next]_vars

\* Uploads that vary the Talk Sec column around the slot boundaries.
TalkValues ==
    {MissingDuration, BadDuration}
        \cup {Duration(neg, m, sec, ms) :
                neg \in BOOLEAN, m \in 0..2, sec \in {0, 29, 30, 59}, ms \in {0, 999}}

SlotRows ==
    {Row("111", "Asha", NULL, Timestamp(1, 9), talk, "Connected", "Interested", NULL, NULL) :
        talk \in TalkValues}

InitSlot == InitWith(TablesOfDistinctPhones(SlotRows, MaxSlotCalls), {DispositionTable})

SpecSlot == InitSlot /\ [][Next]_vars

\* Uploads for the zero bases: agents with and without positive outcomes,
\* calls that connect or not, a call without a phone number, and a call on a
\* later day (so that a date range can select no call at all).
EffortRows ==
    {Row("111", agent, NULL, Timestamp(1, 9), Seconds(45), conn, ssd, NULL, NULL) :
        agent \in {"Asha", "Ben"},
        conn \in {"Connected", "Not Connected"},
        ssd \in {"Interested", "Busy"}}
    \cup {Row(NULL, agent, NULL, Timestamp(1, 9), Seconds(45), "Connected", ssd, NULL, NULL) :
        agent \in {"Asha", "Ben"},
        ssd \in {"Interested", "Busy"}}
    \cup {Row("111", "Asha", NULL, Timestamp(3, 9), Seconds(45), conn, "Busy", NULL, NULL) :
        conn \in {"Connected", "Not Connected"}}

InitEffort == InitWith(TablesOfDistinctPhones(EffortRows, MaxEffortCalls), {DispositionTable})

SpecEffort == InitEffort /\ [][Pipeline]_vars

\* Uploads that vary the connection status and the talk time.
FunnelRows ==
    {Row("111", "Asha", NULL, Timestamp(1, 9), talk, conn, "Interested", NULL, NULL) :
        talk \in {MissingDuration, Seconds(10), Seconds(45), Seconds(90), Seconds(200)},
        conn \in {"Connected", "Not Connected"}}

InitFunnel == InitWith(TablesOfDistinctPhones(FunnelRows, MaxFunnelCalls), {DispositionTable})

SpecFunnel == InitFunnel /\ [][Pipeline]_vars

\* Uploads that vary the list, the call start time and the disposition.
FilterRows ==
    {Row("111", "Asha", list, time, Seconds(45), "Connected", ssd, NULL, NULL) :
        list \in {NULL, "North", "South"},
        time \in {BadTimestamp, Timestamp(1, 9), Timestamp(3, 9)},
        ssd \in {"Interested", "Busy"}}

InitFilter == InitWith(TablesOfDistinctPhones(FilterRows, MaxFilterCalls), {DispositionTable})

SpecFilter == InitFilter /\ [][Next]_vars

----------------------------------------------------------------------------
(* Properties *)

Rows(df) == {df[i] : i \in DOMAIN df}

PhoneNumbers(df) == {df[i].PhoneNumber : i \in DOMAIN df}

\* The summaries and the working table they were computed from are on the page.
Rendered == pc \in {"render", "idle"}

\* The count generate_metrics computed for a label: the value of a count
\* label, the numerator of a percentage label.
MetricCount(label, df) ==
    CASE label = "Unique Data Dialled"        -> total_dialled(df)
      [] label = "Unique Connected"           -> unique_connected(df)
      [] label = "Unique Connected >30s"      -> gt_30s(df)
      [] label = "Unique Connected >1min"     -> gt_1min(df)
      [] label = "Unique Connected >2min"     -> gt_2min(df)
      [] label = "Connect %"                  -> unique_connected(df)
      [] label = "SDW (%)"                    -> disp_counts(df, "SDW")
      [] label = "Lost (%)"                   -> disp_counts(df, "Lost")
      [] label = "Follow Up (%)"              -> disp_counts(df, "Follow Up")
      [] label = "Virtual Meet Proposed (%)"  -> disp_counts(df, "Virtual Meet Proposed")
      [] label = "Virtual Meet Confirmed (%)" -> disp_counts(df, "Virtual Meet Confirmed")
      [] label = "Total Positive (%)"         -> positive_total(df)

\* C1: for every label of the summary, the drill-down returns as many rows as
\* the count generate_metrics computed for that label on the same working
\* table (the numerator, for a percentage).
C1_DrillDownMatchesSummary ==
    pc = "idle" =>
        \A metric \in DOMAIN drill : Len(drill[metric]) = MetricCount(metric, df_unique)

PercentLabels == {"Connect %", "Total Positive (%)"} \cup CategoryLabels

\* C2: every percentage generate_metrics produces (Connect %, the category
\* percentages, Total Positive (%), each list's Positive_%) lies in [0, 100].
C2_PercentagesInRange ==
    summary # None =>
        /\ \A label \in PercentLabels :
              summary[label].value >= 0 /\ summary[label].value <= 10000
        /\ \A k \in DOMAIN list_report :
              list_report[k].Positive_pct >= 0 /\ list_report[k].Positive_pct <= 10000

\* C3: the unique table has exactly one row for each distinct phone number of
\* the joined table and no phone number twice; the row it keeps is a row of
\* the joined table with the largest Talk Sec of its phone number; so it has
\* at most as many rows, and as many exactly when all phone numbers differ.
C3_OneBestRowPerPhone ==
    pc # "upload" =>
        /\ PhoneNumbers(df_unique_original) = PhoneNumbers(df_merged)
        /\ \A i, j \in DOMAIN df_unique_original :
              i # j => df_unique_original[i].PhoneNumber # df_unique_original[j].PhoneNumber
        /\ \A i \in DOMAIN df_unique_original :
              /\ df_unique_original[i] \in Rows(df_merged)
              /\ \A j \in DOMAIN df_merged :
                    df_merged[j].PhoneNumber = df_unique_original[i].PhoneNumber
                        => df_merged[j].TalkSec <= df_unique_original[i].TalkSec
        /\ Len(df_unique_original) <= Len(df_merged)
        /\ (Len(df_unique_original) = Len(df_merged))
              <=> (\A i, j \in DOMAIN df_merged :
                      i # j => df_merged[i].PhoneNumber # df_merged[j].PhoneNumber)

\* A phone number dialled twice with different talk times, beside another one.
C3_Witness ==
    /\ pc # "upload"
    /\ Len(df_unique_original) >= 2
    /\ \E i, j \in DOMAIN df_merged :
          /\ df_merged[i].PhoneNumber = df_merged[j].PhoneNumber
          /\ df_merged[i].TalkSec < df_merged[j].TalkSec

IsEmpty(v) == v = NULL \/ v = ""

\* The first non-empty of the three disposition columns of an uploaded row.
FirstNonEmpty(r) ==
    IF ~IsEmpty(r.SubSubDisposition) THEN r.SubSubDisposition
    ELSE IF ~IsEmpty(r.Disposition) THEN r.Disposition
    ELSE r.DialerStatus

\* C4: the effective disposition process_data stores in "Sub Sub Disposition"
\* is the first non-empty of Sub Sub Disposition, Disposition, Dialer Status,
\* a missing value and the empty string both counting as empty.
C4_FirstNonEmptyDisposition ==
    pc # "upload" =>
        \A j \in DOMAIN df_merged : \A i \in DOMAIN df_calling :
            (df_calling[i].PhoneNumber = df_merged[j].PhoneNumber
                /\ ~IsEmpty(FirstNonEmpty(df_calling[i])))
                => df_merged[j].SubSubDisposition = FirstNonEmpty(df_calling[i])

\* The range of Talk Sec (in milliseconds) the claim gives a slot label.
InSlotRange(label, sec) ==
    CASE label = "No Interaction" -> sec = 0
      [] label = "Below 30s"      -> 0 < sec /\ sec < 30 * Second
      [] label = "30s-1min"       -> 30 * Second <= sec /\ sec < 60 * Second
      [] label = "1-2min"         -> 60 * Second <= sec /\ sec < 120 * Second
      [] label = "Above 2 Min"    -> 120 * Second <= sec

SlotLabels == {"No Interaction", "Below 30s", "30s-1min", "1-2min", "Above 2 Min"}

\* C5: every row gets one of the five slot labels, the one whose range holds
\* its Talk Sec, and an unparsable or missing duration is a Talk Sec of 0.
C5_SlotFollowsTalkSec ==
    pc # "upload" =>
        /\ \A j \in DOMAIN df_merged :
              /\ df_merged[j].Slot \in SlotLabels
              /\ InSlotRange(df_merged[j].Slot, df_merged[j].TalkSec)
        /\ \A j \in DOMAIN df_merged : \A i \in DOMAIN df_calling :
              (df_calling[i].PhoneNumber = df_merged[j].PhoneNumber
                  /\ df_calling[i].TalkSec.kind # "duration")
                  => df_merged[j].TalkSec = 0 /\ df_merged[j].Slot = "No Interaction"

NoRowConnected(df) == \A i \in DOMAIN df : df[i].Connected # "Connected"

\* C6: a ratio with a zero base is 0 or the sentinel: Connect % is 0 for a
\* working table without rows; Connect % and every category percentage are 0
\* when no row is connected; Effort_to_Positive of an agent without positive
\* outcomes is "-" or 0, never infinity or NaN.
C6_ZeroBaseHandled ==
    Rendered =>
        /\ Len(df_unique) = 0 => summary["Connect %"].value = 0
        /\ NoRowConnected(df_unique) =>
              \A label \in PercentLabels : summary[label].value = 0
        /\ \A agent \in DOMAIN agent_report :
              /\ agent_report[agent].Effort_to_Positive.kind \in {"num", "-"}
              /\ agent_report[agent].Positive_Outcomes = 0
                    => agent_report[agent].Effort_to_Positive \in {Dash, Num(0)}

\* Calls with a positive outcome of which none connected, and an agent who
\* has calls and no positive outcome.
C6_Witness ==
    /\ Rendered
    /\ Len(df_unique) >= 1
    /\ NoRowConnected(df_unique)
    /\ positive_total(df_unique) >= 1
    /\ \E agent \in DOMAIN agent_report :
          /\ agent_report[agent].Positive_Outcomes = 0
          /\ agent_report[agent].Unique_Contacts >= 1
          /\ agent_report[agent].Effort_to_Positive = Dash

\* C7: the funnel counts never increase: >2min <= >1min <= >30s <= connected
\* <= dialled.
C7_FunnelMonotone ==
    summary # None =>
        /\ summary["Unique Connected >2min"].value <= summary["Unique Connected >1min"].value
        /\ summary["Unique Connected >1min"].value <= summary["Unique Connected >30s"].value
        /\ summary["Unique Connected >30s"].value <= summary["Unique Connected"].value
        /\ summary["Unique Connected"].value <= summary["Unique Data Dialled"].value

\* A connected call of 1-2 minutes counted toward >30s and >1min and not
\* toward >2min, beside a longer one and a long call that did not connect.
C7_Witness ==
    /\ Rendered
    /\ \E i \in DOMAIN df_unique :
          df_unique[i].Connected = "Connected" /\ df_unique[i].Slot = "1-2min"
    /\ \E i \in DOMAIN df_unique :
          df_unique[i].Connected # "Connected" /\ df_unique[i].Slot \in Slots30s
    /\ summary["Unique Connected >2min"].value = 1
    /\ summary["Unique Connected >1min"].value = 2
    /\ summary["Unique Connected >30s"].value = 2
    /\ summary["Unique Connected"].value = 2
    /\ summary["Unique Data Dialled"].value = 3

\* The rows of an agent that are connected and in one of the slots.
ConnectedInSlots(df, agent, slots) ==
    (LET t == df
        IN CountRows([i \in DOMAIN t |-> t[i].AgentName = agent
                /\ t[i].Connected = "Connected"
                /\ t[i].Slot \in slots]))

\* C8: each per-agent threshold column counts the agent's rows that are
\* connected and at or above the threshold, so that, when every row has an
\* agent, a column's sum over the agents is the summary's count.
C8_AgentThresholdsAreConnected ==
    Rendered =>
        /\ \A agent \in DOMAIN agent_report :
              /\ agent_report[agent].Unique_Connected_GT30s
                    = ConnectedInSlots(df_unique, agent, Slots30s)
              /\ agent_report[agent].Unique_Connected_GT1min
                    = ConnectedInSlots(df_unique, agent, Slots1min)
              /\ agent_report[agent].Unique_Connected_GT2min
                    = ConnectedInSlots(df_unique, agent, Slots2min)
        /\ (\A i \in DOMAIN df_unique : df_unique[i].AgentName # NULL) =>
              /\ SumOver([a \in DOMAIN agent_report |->
                            agent_report[a].Unique_Connected_GT30s], DOMAIN agent_report)
                    = summary["Unique Connected >30s"].value
              /\ SumOver([a \in DOMAIN agent_report |->
                            agent_report[a].Unique_Connected_GT1min], DOMAIN agent_report)
                    = summary["Unique Connected >1min"].value
              /\ SumOver([a \in DOMAIN agent_report |->
                            agent_report[a].Unique_Connected_GT2min], DOMAIN agent_report)
                    = summary["Unique Connected >2min"].value

\* C9: with a non-null list name in the working table, the list summary has
\* a row for every list name of the table; its Total_Unique is the number of
\* rows of that list, rows without a Primary Disposition included, and its
\* Positive the number of those with a positive disposition.
C9_ListRollupCountsEveryRow ==
    (Rendered /\ HasLists(df_unique)) =>
        \A list \in {df_unique[i].ListName : i \in DOMAIN df_unique} \ {NULL} :
            \E k \in DOMAIN list_report :
                /\ list_report[k].ListName = list
                /\ list_report[k].Total_Unique
                      = (LET t == df_unique
                          IN CountRows([i \in DOMAIN t |-> t[i].ListName = list]))
                /\ list_report[k].Positive
                      = (LET t == df_unique
                          IN CountRows([i \in DOMAIN t |-> t[i].ListName = list
                                  /\ t[i].PrimaryDisposition \in positive_dispositions]))

\* The date range is the default one, the whole of the dates, and no list is chosen.
DefaultFilters ==
    /\ ~start_date.null
    /\ start_date = min_date(df_unique_original)
    /\ end_date = max_date(df_unique_original)
    /\ chosen_list = "All Lists"

\* C10: a row whose Call Start Time cannot be parsed has a null Call Date and
\* Hour and is kept by process_data; kept for its phone number, it is in the
\* working table under the default filters and counted in "Unique Data Dialled".
C10_UnparsableTimestampKept ==
    /\ pc # "upload" =>
          /\ Len(df_merged) = Len(df_calling)
          /\ \A j \in DOMAIN df_merged : \A i \in DOMAIN df_calling :
                (df_calling[i].PhoneNumber = df_merged[j].PhoneNumber
                    /\ df_calling[i].CallStartTime.kind # "timestamp")
                    => df_merged[j].CallDate = NaT /\ df_merged[j].Hour = NoHour
    /\ (Rendered /\ DefaultFilters) =>
          /\ \A i \in DOMAIN df_unique_original :
                df_unique_original[i].CallDate.null
                    => df_unique_original[i] \in Rows(df_unique)
          /\ summary["Unique Data Dialled"].value = Len(df_unique_original)

====
